---- MODULE Spec2Model ----
(***************************************************************************)
(* A model of juggernaut.py: the Roster / RedisRoster presence tracker     *)
(* over a redis set store.                                                 *)
(*                                                                         *)
(* Spec      one RedisRoster; every handle_event call is one atomic step.  *)
(* SpecConc  two RedisRoster instances on one redis; every redis command   *)
(*           of on_subscribe / on_unsubscribe is a step of its own.        *)
(***************************************************************************)
EXTENDS Integers, Sequences, FiniteSets, TLC

VARIABLES
    redis,          \* the redis key space: key -> set of members (missing key = {})
    calls,          \* the on_signed_in / on_signed_out invocations, in order
    user_meta_key,  \* the user_meta_key the rosters are constructed with
    roster,         \* inst -> the attributes of that RedisRoster object
    handled,        \* inst -> number of handle_event calls made so far
    last,           \* Spec: the arguments of the latest handle_event call
    raised,         \* Spec: the exception the latest handle_event call raised
    prev,           \* Spec: redis and calls as they were when that call began
    pc,             \* SpecConc: inst -> the redis command it executes next
    cur,            \* SpecConc: inst -> user_id and session id of its handler
    ref,            \* SpecSpread: redis, calls and attributes of one roster given
                    \* the same events
    jug_key,        \* Juggernaut.key
    subscribed,     \* the channels the pubsub of subscribe_listen is subscribed to
    published,      \* the redis.publish calls made, in order
    pub_args,       \* the arguments of the publish calls made, in order
    delivered,      \* the messages pubsub.listen() has yielded or will yield next
    closed,         \* the connection is closed: listen() ends after these messages
    pos,            \* the number of messages the loop of run() has taken
    run_state,      \* "running", "returned", or the exception that ended run()
    seen            \* the (event, data) pairs run() passed to handle_event

\* the state of the Juggernaut client and of the loop of run()
busVars == <<jug_key, subscribed, published, pub_args, delivered, closed, pos,
            run_state, seen>>

vars == <<redis, calls, user_meta_key, roster, handled, last, raised, prev, pc, cur, ref,
          busVars>>

----------------------------------------------------------------------------
(* Bounds *)

\* handle_event calls made by the single roster of Spec
MaxEvents == 4

\* handle_event calls made by each roster of SpecConc
MaxConcEvents == 2

\* handle_event calls made by the two rosters of SpecSpread together
MaxSpreadEvents == 4

\* publish calls made in SpecBus
MaxPublishes == 2

\* messages pubsub.listen() yields in SpecRun
MaxDeliveries == 3

----------------------------------------------------------------------------
(* Python / JSON values *)

PyNone == [t |-> "null", i |-> 0, s |-> ""]

Absent == [t |-> "absent", i |-> 0, s |-> ""]

PyInt(n) == [t |-> "int", i |-> n, s |-> ""]

PyStr(x) == [t |-> "str", i |-> 0, s |-> x]

Digit == <<"0", "1", "2", "3", "4", "5", "6", "7", "8", "9">>

RECURSIVE NatToStr(_)
NatToStr(n) ==
    IF n < 10 THEN Digit[n + 1]
    ELSE NatToStr(n \div 10) \o Digit[(n % 10) + 1]

IntToStr(n) ==
    IF n < 0 THEN "-" \o NatToStr(0 - n) ELSE NatToStr(n)

\* unicode(x) of Python 2 for the values a JSON document holds here
unicode(v) ==
    CASE v.t = "str" -> v
      [] v.t = "int" -> PyStr(IntToStr(v.i))
      [] v.t = "null" -> PyStr("None")

\* dict.get(key): the value, or None when the key is missing
dict_get(d, key) ==
    IF d[key].t = "absent" THEN PyNone ELSE d[key]

\* truth value of a dict: non-empty
dict_truthy(d) ==
    \E k \in DOMAIN d : d[k].t # "absent"

----------------------------------------------------------------------------
(* Inputs *)

MetaKeys == {"user_id", "uid"}

MetaValues == {Absent, PyInt(1), PyStr("1"), PyStr("2")}

SessionValues == {Absent, PyStr("s1"), PyStr("s2")}

EventNames == {"subscribe", "unsubscribe", "custom"}

\* the decoded payload of an event: meta may be missing, and so may session_id
EventData ==
    [has_meta : {TRUE}, meta : [MetaKeys -> MetaValues], session_id : SessionValues]
    \cup [has_meta : {FALSE}, meta : {[k \in MetaKeys |-> Absent]},
          session_id : SessionValues]

\* the payloads the instances of SpecConc are given: no second meta key
ConcEventData == {d \in EventData : d.meta["uid"] = Absent}

\* the session ids among the inputs
SessionIds == {v.s : v \in SessionValues \ {Absent}}

\* every string get_user_id can return for these inputs
UserIds == {"1", "2", "None"}

Instances == {1, 2}

----------------------------------------------------------------------------
(* redis *)

key_prefix == "juggernaut-roster:"

\* the connections key built without the user id
ConnKey_shared(user_id) == key_prefix \o "connections:"

ConnKey(user_id) == key_prefix \o "connections:" \o user_id

OnlineKey == key_prefix \o "online-users"

RedisKeys == {ConnKey(u) : u \in UserIds} \cup {OnlineKey}

sadd(r, key, member) == [r EXCEPT ![key] = @ \cup {member}]

\* srem emptying the whole set, as a DEL of the key would
srem_clear(r, key, member) == [r EXCEPT ![key] = {}]

\* srem that removes nothing
srem_noop(r, key, member) == r

srem(r, key, member) == [r EXCEPT ![key] = @ \ {member}]

scard(r, key) == Cardinality(r[key])

smembers(r, key) == r[key]

----------------------------------------------------------------------------
(* Roster *)

\* get_user_id without its "if meta:" test
get_user_id_unguarded(data, meta_key) ==
    unicode(dict_get(data.meta, meta_key))

\* Roster.get_user_id: None (PyNone), or the unicode of meta[user_meta_key]
get_user_id(data, meta_key) ==
    IF data.has_meta /\ dict_truthy(data.meta)
    THEN unicode(dict_get(data.meta, meta_key))
    ELSE PyNone

\* Roster.__init__ and RedisRoster.__init__: the attributes of a new roster;
\* self.jug is the connection to the redis the handlers are given
RedisRoster_init(meta_key) ==
    [key_prefix |-> key_prefix, user_meta_key |-> meta_key]

Call(inst, hook, user_id) == [inst |-> inst, hook |-> hook, user_id |-> user_id]

on_signed_in(log, inst, user_id) == Append(log, Call(inst, "on_signed_in", user_id))

on_signed_out(log, inst, user_id) == Append(log, Call(inst, "on_signed_out", user_id))

get_online_users(r) == smembers(r, OnlineKey)

\* is_user_online answered from the online-users set
is_user_online_from_set(r, user_id) == user_id \in smembers(r, OnlineKey)

is_user_online(r, user_id) == scard(r, ConnKey(user_id)) > 0

\* data['session_id'] raises KeyError when the key is missing
HasSession(data) == data.session_id.t # "absent"

\* on_subscribe comparing the count read after the add with 1
SubscribeFires_one(r, key) == scard(r, key) = 1

\* the condition under which on_subscribe calls on_signed_in
SubscribeFires(r, key) == scard(r, key) = 0

\* on_unsubscribe off by one: fires while one session is left
UnsubscribeFires_le1(r, key) == scard(r, key) <= 1

\* the condition under which on_unsubscribe calls on_signed_out
UnsubscribeFires(r, key) == scard(r, key) = 0

\* RedisRoster.on_subscribe, run to completion on st: the redis, the calls
\* made so far and, where the caller tracks them, the attributes of self
on_subscribe(st, inst, user_id, data) ==
    LET key == ConnKey(user_id)
        r1 == sadd(st.redis, key, data.session_id.s)
        c1 == IF SubscribeFires(r1, key)
              THEN on_signed_in(st.calls, inst, user_id)
              ELSE st.calls
        r2 == sadd(r1, OnlineKey, user_id)
    IN  [st EXCEPT !.redis = r2, !.calls = c1]

\* on_unsubscribe of a roster that keeps, in an attribute of the object,
\* the users it has signed out and does not sign them out again
on_unsubscribe_remembering(st, inst, user_id, data) ==
    LET key == ConnKey(user_id)
        r1 == srem(st.redis, key, data.session_id.s)
        told == IF "signed_out" \in DOMAIN st.self
                THEN st.self["signed_out"] ELSE {}
        self1 == [a \in DOMAIN st.self \cup {"signed_out"} |->
                     IF a = "signed_out" THEN told \cup {user_id}
                     ELSE st.self[a]]
    IN  IF UnsubscribeFires(r1, key)
        THEN [st EXCEPT !.redis = sadd(r1, OnlineKey, user_id),
                        !.calls = IF user_id \in told THEN st.calls
                                  ELSE on_signed_out(st.calls, inst, user_id),
                        !.self = self1]
        ELSE [st EXCEPT !.redis = r1]

\* RedisRoster.on_unsubscribe, run to completion on st
on_unsubscribe(st, inst, user_id, data) ==
    LET key == ConnKey(user_id)
        r1 == srem(st.redis, key, data.session_id.s)
    IN  IF UnsubscribeFires(r1, key)
        THEN [st EXCEPT !.redis = sadd(r1, OnlineKey, user_id),
                        !.calls = on_signed_out(st.calls, inst, user_id)]
        ELSE [st EXCEPT !.redis = r1]

\* handle_event with "else" in place of "elif event == 'unsubscribe'"
Dispatch_else(event, user_id) ==
    IF user_id # PyNone
    THEN IF event = "subscribe" THEN "on_subscribe" ELSE "on_unsubscribe"
    ELSE ""

\* which handler Roster.handle_event dispatches to: "" when it ignores the event
Dispatch(event, user_id) ==
    IF user_id # PyNone
    THEN IF event = "subscribe" THEN "on_subscribe"
         ELSE IF event = "unsubscribe" THEN "on_unsubscribe"
         ELSE ""
    ELSE ""

\* Roster.handle_event, run to completion; raised is "KeyError" when
\* data['session_id'] fails, which happens before any redis command
handle_event(st, inst, meta_key, event, data) ==
    LET user_id == get_user_id(data, meta_key)
        to == Dispatch(event, user_id)
    IN  IF to = "" THEN [st |-> st, raised |-> ""]
        ELSE IF ~HasSession(data) THEN [st |-> st, raised |-> "KeyError"]
        ELSE IF to = "on_subscribe"
             THEN [st |-> on_subscribe(st, inst, user_id.s, data), raised |-> ""]
             ELSE [st |-> on_unsubscribe(st, inst, user_id.s, data), raised |-> ""]

----------------------------------------------------------------------------
(* Juggernaut: channel names are sequences of characters *)

Range(q) == {q[k] : k \in DOMAIN q}

\* the str of a sequence of characters
RECURSIVE Join(_)
Join(chars) ==
    IF chars = <<>> THEN "" ELSE Head(chars) \o Join(Tail(chars))

\* the default of the key parameter of Juggernaut.__init__: 'juggernaut'
DefaultKey == <<"j", "u", "g", "g", "e", "r", "n", "a", "u", "t">>

\* the keys a Juggernaut is constructed with here: 'juggernaut' and 'chat'
JugKeys == {DefaultKey, <<"c", "h", "a", "t">>}

\* Juggernaut.events without 'juggernaut:custom'
events_two ==
    << <<"j", "u", "g", "g", "e", "r", "n", "a", "u", "t", ":",
         "s", "u", "b", "s", "c", "r", "i", "b", "e">>,
       <<"j", "u", "g", "g", "e", "r", "n", "a", "u", "t", ":",
         "u", "n", "s", "u", "b", "s", "c", "r", "i", "b", "e">> >>

\* Juggernaut.events
events ==
    << <<"j", "u", "g", "g", "e", "r", "n", "a", "u", "t", ":",
         "s", "u", "b", "s", "c", "r", "i", "b", "e">>,
       <<"j", "u", "g", "g", "e", "r", "n", "a", "u", "t", ":",
         "u", "n", "s", "u", "b", "s", "c", "r", "i", "b", "e">>,
       <<"j", "u", "g", "g", "e", "r", "n", "a", "u", "t", ":",
         "c", "u", "s", "t", "o", "m">> >>

\* json.dumps / json.loads: a text is malformed, or it holds a value
json_dumps(value) == [ok |-> TRUE, value |-> value]

Malformed == [ok |-> FALSE, value |-> PyNone]

\* the channels argument of publish: one name, or a list of names
OneChannel(name) == [t |-> "str", name |-> name, items |-> <<>>]

ChannelList(items) == [t |-> "list", name |-> <<>>, items |-> items]

\* publish iterating over the characters of a single channel name
channel_list_unwrapped(channels) ==
    IF channels.t = "str"
    THEN [k \in 1..Len(channels.name) |-> <<channels.name[k]>>]
    ELSE channels.items

\* publish: if isinstance(channels, basestring): channels = [channels]
channel_list(channels) ==
    IF channels.t = "str" THEN <<channels.name>> ELSE channels.items

\* list(set(...)): the members once each, in an order Python leaves open
ListsOfSet(S) ==
    {q \in [1..Cardinality(S) -> S] : Range(q) = S}

\* truth value of the except_ argument: None and [] are false
except_truthy(except_) == except_ # PyNone /\ except_ # <<>>

\* the dict publish builds, its channels in the given order
publish_dict(chans, data, except_, options) ==
    [k \in {"channels", "data", "except", "extra"} |->
        CASE k = "channels" -> chans
          [] k = "data" -> data
          [] k = "except" ->
                IF options["except"] # Absent THEN options["except"]
                ELSE IF except_truthy(except_) THEN except_
                ELSE Absent
          [] k = "extra" -> options["extra"]]

\* the inputs of publish
PublishChannels ==
    {OneChannel(<<"c", "1">>), ChannelList(<< <<"c", "1">> >>),
     ChannelList(<< <<"c", "1">>, <<"c", "1">> >>),
     ChannelList(<< <<"c", "1">>, <<"c", "2">> >>),
     ChannelList(<< <<"c", "2">>, <<"c", "1">>, <<"c", "2">> >>)}

PublishExcepts == {PyNone, <<"s1">>}

PublishOptions ==
    {[k \in {"except", "extra"} |-> Absent],
     [k \in {"except", "extra"} |-> IF k = "extra" THEN PyStr("x") ELSE Absent]}

----------------------------------------------------------------------------
(* Spec: one RedisRoster, handle_event calls one after the other *)

NoHandler == [handler |-> "", user_id |-> "", session_id |-> ""]

NoEvent == [event |-> "", data |-> [has_meta |-> FALSE,
                                    meta |-> [k \in MetaKeys |-> Absent],
                                    session_id |-> Absent]]

EmptyRedis == [k \in RedisKeys |-> {}]

\* Juggernaut.__init__ with the given key; no publish, no subscribe_listen yet
InitBus(k) ==
    /\ jug_key = k
    /\ subscribed = {}
    /\ published = <<>>
    /\ pub_args = <<>>
    /\ delivered = <<>>
    /\ closed = ""
    /\ pos = 0
    /\ run_state = "running"
    /\ seen = <<>>

Init ==
    /\ redis = EmptyRedis
    /\ calls = <<>>
    /\ user_meta_key \in MetaKeys
    /\ handled = [i \in Instances |-> 0]
    /\ last = NoEvent
    /\ raised = ""
    /\ prev = [redis |-> EmptyRedis, calls |-> <<>>]
    /\ pc = [i \in Instances |-> "idle"]
    /\ cur = [i \in Instances |-> NoHandler]
    /\ roster = [i \in Instances |-> RedisRoster_init(user_meta_key)]
    /\ ref = [redis |-> EmptyRedis, calls |-> <<>>,
              self |-> RedisRoster_init(user_meta_key)]
    /\ InitBus(DefaultKey)

HandleEvent(event, data) ==
    /\ handled[1] < MaxEvents
    /\ LET st == [redis |-> redis, calls |-> calls]
           out == handle_event(st, 1, user_meta_key, event, data)
       IN  /\ redis' = out.st.redis
           /\ calls' = out.st.calls
           /\ raised' = out.raised
           /\ prev' = st
    /\ last' = [event |-> event, data |-> data]
    /\ handled' = [handled EXCEPT ![1] = @ + 1]
    /\ UNCHANGED <<user_meta_key, roster, pc, cur, ref, busVars>>

Next == \E event \in EventNames, data \in EventData : HandleEvent(event, data)

Spec == Init /\ [][Next]_vars

----------------------------------------------------------------------------
(* SpecConc: two RedisRoster instances on one redis; a step is one redis    *)
(* command, together with the instance-local code that follows it          *)

\* handle_event up to the first redis command: get_user_id, the dispatch and
\* the read of data['session_id']
Begin(i, event, data) ==
    /\ pc[i] = "idle"
    /\ handled[i] < MaxConcEvents
    /\ handled' = [handled EXCEPT ![i] = @ + 1]
    /\ LET user_id == get_user_id(data, user_meta_key)
           to == Dispatch(event, user_id)
       IN  IF to = "" \/ ~HasSession(data)
           THEN /\ cur' = [cur EXCEPT ![i] = NoHandler]
                /\ pc' = pc
           ELSE /\ cur' = [cur EXCEPT ![i] = [handler |-> to,
                                              user_id |-> user_id.s,
                                              session_id |-> data.session_id.s]]
                /\ pc' = [pc EXCEPT ![i] = IF to = "on_subscribe"
                                           THEN "sub_sadd" ELSE "unsub_srem"]
    /\ UNCHANGED <<redis, calls, user_meta_key, roster, last, raised, prev, ref, busVars>>

\* on_subscribe: r.sadd(key, data['session_id'])
SubSadd(i) ==
    /\ pc[i] = "sub_sadd"
    /\ redis' = sadd(redis, ConnKey(cur[i].user_id), cur[i].session_id)
    /\ pc' = [pc EXCEPT ![i] = "sub_scard"]
    /\ UNCHANGED <<calls, user_meta_key, roster, handled, last, raised, prev, cur, ref, busVars>>

\* on_subscribe: if r.scard(key) == 0: self.on_signed_in(user_id)
SubScard(i) ==
    /\ pc[i] = "sub_scard"
    /\ calls' = IF SubscribeFires(redis, ConnKey(cur[i].user_id))
                THEN on_signed_in(calls, i, cur[i].user_id)
                ELSE calls
    /\ pc' = [pc EXCEPT ![i] = "sub_sadd_online"]
    /\ UNCHANGED <<redis, user_meta_key, roster, handled, last, raised, prev, cur, ref, busVars>>

\* on_subscribe: r.sadd(self.key_prefix + 'online-users', user_id)
SubSaddOnline(i) ==
    /\ pc[i] = "sub_sadd_online"
    /\ redis' = sadd(redis, OnlineKey, cur[i].user_id)
    /\ pc' = [pc EXCEPT ![i] = "idle"]
    /\ UNCHANGED <<calls, user_meta_key, roster, handled, last, raised, prev, cur, ref, busVars>>

\* on_unsubscribe: r.srem(key, data['session_id'])
UnsubSrem(i) ==
    /\ pc[i] = "unsub_srem"
    /\ redis' = srem(redis, ConnKey(cur[i].user_id), cur[i].session_id)
    /\ pc' = [pc EXCEPT ![i] = "unsub_scard"]
    /\ UNCHANGED <<calls, user_meta_key, roster, handled, last, raised, prev, cur, ref, busVars>>

\* on_unsubscribe: if r.scard(key) == 0: self.on_signed_out(user_id)
UnsubScard(i) ==
    /\ pc[i] = "unsub_scard"
    /\ IF UnsubscribeFires(redis, ConnKey(cur[i].user_id))
       THEN /\ calls' = on_signed_out(calls, i, cur[i].user_id)
            /\ pc' = [pc EXCEPT ![i] = "unsub_sadd_online"]
       ELSE /\ calls' = calls
            /\ pc' = [pc EXCEPT ![i] = "idle"]
    /\ UNCHANGED <<redis, user_meta_key, roster, handled, last, raised, prev, cur, ref, busVars>>

\* on_unsubscribe: r.sadd(self.key_prefix + 'online-users', user_id)
UnsubSaddOnline(i) ==
    /\ pc[i] = "unsub_sadd_online"
    /\ redis' = sadd(redis, OnlineKey, cur[i].user_id)
    /\ pc' = [pc EXCEPT ![i] = "idle"]
    /\ UNCHANGED <<calls, user_meta_key, roster, handled, last, raised, prev, cur, ref, busVars>>

NextConc ==
    \E i \in Instances :
        \/ \E event \in EventNames, data \in ConcEventData : Begin(i, event, data)
        \/ SubSadd(i)
        \/ SubScard(i)
        \/ SubSaddOnline(i)
        \/ UnsubSrem(i)
        \/ UnsubScard(i)
        \/ UnsubSaddOnline(i)

SpecConc == Init /\ [][NextConc]_vars

----------------------------------------------------------------------------
(* SpecLastTwo: SpecConc started where one user has two open sessions and   *)
(* each instance has one event left to handle                               *)

\* redis after subscribes of sessions s1 and s2 of user u were handled
TwoSessions(u) ==
    sadd(sadd(sadd(EmptyRedis, ConnKey(u), "s1"), ConnKey(u), "s2"), OnlineKey, u)

InitLastTwo ==
    /\ \E u \in {"1", "2"} :
           /\ redis = TwoSessions(u)
           /\ prev = [redis |-> TwoSessions(u), calls |-> <<>>]
    /\ calls = <<>>
    /\ user_meta_key = "user_id"
    /\ handled = [i \in Instances |-> MaxConcEvents - 1]
    /\ last = NoEvent
    /\ raised = ""
    /\ pc = [i \in Instances |-> "idle"]
    /\ cur = [i \in Instances |-> NoHandler]
    /\ roster = [i \in Instances |-> RedisRoster_init(user_meta_key)]
    /\ ref = [redis |-> EmptyRedis, calls |-> <<>>,
              self |-> RedisRoster_init(user_meta_key)]
    /\ InitBus(DefaultKey)

SpecLastTwo == InitLastTwo /\ [][NextConc]_vars

----------------------------------------------------------------------------
(* SpecSpread: two RedisRoster objects on one redis take turns, each        *)
(* handle_event call running to its end before the next begins.  A call     *)
(* runs on the attributes of the object that makes it, and what it leaves   *)
(* in them stays with that object.  ref is one RedisRoster, with attributes *)
(* and a redis of its own, that is given every one of the events.           *)

HandleEventBy(i, event, data) ==
    /\ handled[1] + handled[2] < MaxSpreadEvents
    /\ LET out == handle_event([redis |-> redis, calls |-> calls,
                                self |-> roster[i]],
                               i, roster[i].user_meta_key, event, data)
           one == handle_event(ref, 1, ref.self.user_meta_key, event, data)
       IN  /\ redis' = out.st.redis
           /\ calls' = out.st.calls
           /\ roster' = [roster EXCEPT ![i] = out.st.self]
           /\ ref' = one.st
    /\ handled' = [handled EXCEPT ![i] = @ + 1]
    /\ UNCHANGED <<user_meta_key, last, raised, prev, pc, cur, busVars>>

NextSpread ==
    \E i \in Instances, event \in EventNames, data \in EventData :
        HandleEventBy(i, event, data)

SpecSpread == Init /\ [][NextSpread]_vars

----------------------------------------------------------------------------
(* SpecBus: one Juggernaut: publish calls and the start of subscribe_listen *)

\* Juggernaut.publish
Publish(channels, data, except_, options) ==
    /\ Len(published) < MaxPublishes
    /\ \E chans \in ListsOfSet(Range(channel_list(channels))) :
           published' = Append(published,
               [channel |-> jug_key,
                message |-> json_dumps(publish_dict(chans, data, except_, options))])
    /\ pub_args' = Append(pub_args, [channels |-> channels, data |-> data,
                                     except_ |-> except_, options |-> options])
    /\ UNCHANGED <<redis, calls, user_meta_key, roster, handled, last, raised, prev, pc,
                   cur, ref, jug_key, subscribed, delivered, closed, pos,
                   run_state, seen>>

\* every pubsub.subscribe(event) of subscribe_listen has been made: the
\* generator is in pubsub.listen()
Listening == Cardinality(subscribed) = Len(events)

\* one turn of the first loop of Juggernaut.subscribe_listen:
\* pubsub.subscribe(event) for the next entry of events
pubsub_subscribe ==
    /\ run_state = "running"
    /\ closed = ""
    /\ ~Listening
    /\ subscribed' = subscribed \cup {events[Cardinality(subscribed) + 1]}
    /\ UNCHANGED <<redis, calls, user_meta_key, roster, handled, last, raised, prev, pc,
                   cur, ref, jug_key, published, pub_args, delivered, closed, pos,
                   run_state, seen>>

InitWithKey ==
    /\ redis = EmptyRedis
    /\ calls = <<>>
    /\ user_meta_key = "user_id"
    /\ handled = [i \in Instances |-> 0]
    /\ last = NoEvent
    /\ raised = ""
    /\ prev = [redis |-> EmptyRedis, calls |-> <<>>]
    /\ pc = [i \in Instances |-> "idle"]
    /\ cur = [i \in Instances |-> NoHandler]
    /\ roster = [i \in Instances |-> RedisRoster_init(user_meta_key)]
    /\ ref = [redis |-> EmptyRedis, calls |-> <<>>,
              self |-> RedisRoster_init(user_meta_key)]
    /\ \E k \in JugKeys : InitBus(k)

NextBus ==
    \/ \E channels \in PublishChannels, except_ \in PublishExcepts,
          options \in PublishOptions :
           Publish(channels, PyStr("Hello World!"), except_, options)
    \/ pubsub_subscribe

SpecBus == InitWithKey /\ [][NextBus]_vars

----------------------------------------------------------------------------
(* SpecRun: Roster.run() of one RedisRoster: the loop over                  *)
(* subscribe_listen(), fed by the messages pubsub.listen() yields; within   *)
(* a turn of the loop every redis command of the handler is a step of its   *)
(* own, so that deliveries and the end of the connection fall between them  *)

\* chars.split(sep, 1)
split_once(chars, sep) ==
    IF \E k \in 1..Len(chars) : chars[k] = sep
    THEN LET at == CHOOSE k \in 1..Len(chars) :
                       /\ chars[k] = sep
                       /\ \A j \in 1..(k - 1) : chars[j] # sep
         IN  <<SubSeq(chars, 1, at - 1), SubSeq(chars, at + 1, Len(chars))>>
    ELSE <<chars>>

\* the event name taken from the part of the channel name before the ':'
event_of_channel_head(channel) == Join(split_once(channel, ":")[1])

\* subscribe_listen: event = message['channel'].split(':', 1)[1]
event_of_channel(channel) == Join(split_once(channel, ":")[2])

\* a loop that swallows exceptions and goes on with the next message
LoopAlive_resuming(state) == state \notin {"returned", "ConnectionError"}

\* the for loop of run() / subscribe() goes on: nothing has ended it
LoopAlive(state) == state = "running"

\* a payload with meta {'user_id': uid} and the given session_id
DataOf(uid, sess) ==
    [has_meta |-> TRUE,
     meta |-> [k \in MetaKeys |-> IF k = "user_id" THEN uid ELSE Absent],
     session_id |-> sess]

RunEventData ==
    {DataOf(PyInt(1), PyStr("s1")), DataOf(PyInt(1), PyStr("s2")),
     DataOf(PyInt(1), Absent)}

\* the messages listen() can yield: a subscribed channel and a JSON text
RunMessages ==
    [channel : Range(events),
     data : {Malformed} \cup {json_dumps(d) : d \in RunEventData}]

\* the broker delivers a message on a subscribed channel
Deliver(msg) ==
    /\ closed = ""
    /\ msg.channel \in subscribed
    /\ Len(delivered) < MaxDeliveries
    /\ delivered' = Append(delivered, msg)
    /\ UNCHANGED <<redis, calls, user_meta_key, roster, handled, last, raised, prev, pc,
                   cur, ref, jug_key, subscribed, published, pub_args, closed,
                   pos, run_state, seen>>

\* the connection ends: listen() returns, or raises, after what it yielded;
\* a connection that fails before listen() fails the next pubsub.subscribe
Close(how) ==
    /\ closed = ""
    /\ how = "returned" => Listening
    /\ closed' = how
    /\ UNCHANGED <<redis, calls, user_meta_key, roster, handled, last, raised, prev, pc,
                   cur, ref, jug_key, subscribed, published, pub_args, delivered,
                   pos, run_state, seen>>

\* the loop of run() takes the next message: subscribe_listen decodes it and
\* handle_event runs up to its first redis command (get_user_id, the
\* dispatch and the read of data['session_id'])
RunStep ==
    /\ LoopAlive(run_state)
    /\ Listening
    /\ pc[1] = "idle"
    /\ pos < Len(delivered)
    /\ pos' = pos + 1
    /\ LET msg == delivered[pos + 1]
       IN  IF Len(split_once(msg.channel, ":")) < 2
           THEN /\ run_state' = "IndexError"
                /\ UNCHANGED <<seen, prev, raised, handled, last, pc, cur>>
           ELSE IF ~msg.data.ok
           THEN /\ run_state' = "ValueError"
                /\ UNCHANGED <<seen, prev, raised, handled, last, pc, cur>>
           ELSE LET event == event_of_channel(msg.channel)
                    data == msg.data.value
                    user_id == get_user_id(data, user_meta_key)
                    to == Dispatch(event, user_id)
                IN  /\ seen' = Append(seen, [event |-> event, data |-> data])
                    /\ last' = [event |-> event, data |-> data]
                    /\ handled' = [handled EXCEPT ![1] = @ + 1]
                    /\ prev' = [redis |-> redis, calls |-> calls]
                    /\ IF to = ""
                       THEN /\ raised' = ""
                            /\ UNCHANGED <<run_state, pc, cur>>
                       ELSE IF ~HasSession(data)
                       THEN /\ raised' = "KeyError"
                            /\ run_state' = "KeyError"
                            /\ UNCHANGED <<pc, cur>>
                       ELSE /\ raised' = ""
                            /\ cur' = [cur EXCEPT ![1] =
                                           [handler |-> to,
                                            user_id |-> user_id.s,
                                            session_id |-> data.session_id.s]]
                            /\ pc' = [pc EXCEPT ![1] =
                                          IF to = "on_subscribe"
                                          THEN "sub_sadd" ELSE "unsub_srem"]
                            /\ UNCHANGED run_state
    /\ UNCHANGED <<redis, calls, user_meta_key, roster, ref, jug_key,
                   subscribed, published, pub_args, delivered, closed>>

\* the handler the loop of run() is in executes its next redis command
HandlerStep ==
    \/ SubSadd(1)
    \/ SubScard(1)
    \/ SubSaddOnline(1)
    \/ UnsubSrem(1)
    \/ UnsubScard(1)
    \/ UnsubSaddOnline(1)

\* listen() has nothing left and the connection has ended: run() ends
RunEnd ==
    /\ LoopAlive(run_state)
    /\ Listening
    /\ pc[1] = "idle"
    /\ closed # ""
    /\ pos = Len(delivered)
    /\ run_state' = closed
    /\ UNCHANGED <<redis, calls, user_meta_key, roster, handled, last, raised, prev, pc,
                   cur, ref, jug_key, subscribed, published, pub_args, delivered,
                   closed, pos, seen>>

\* pubsub.subscribe(event) on a failed connection raises: run() ends
\* before pubsub.listen()
SubscribeFails ==
    /\ LoopAlive(run_state)
    /\ ~Listening
    /\ closed # ""
    /\ run_state' = closed
    /\ UNCHANGED <<redis, calls, user_meta_key, roster, handled, last, raised, prev, pc,
                   cur, ref, jug_key, subscribed, published, pub_args, delivered,
                   closed, pos, seen>>

InitRun == Init /\ user_meta_key = "user_id"

NextRun ==
    \/ pubsub_subscribe
    \/ \E msg \in RunMessages : Deliver(msg)
    \/ \E how \in {"returned", "ConnectionError"} : Close(how)
    \/ RunStep
    \/ HandlerStep
    \/ RunEnd
    \/ SubscribeFails

SpecRun == InitRun /\ [][NextRun]_vars

\* the messages of the scheduled runs: subscribe and unsubscribe events of
\* one user for two sessions, a subscribe event without session_id, and a
\* payload that does not decode
FairMessages ==
    {[channel |-> events[c], data |-> json_dumps(DataOf(PyInt(1), PyStr(s)))] :
        c \in {1, 2}, s \in {"s1", "s2"}}
    \cup {[channel |-> events[1], data |-> json_dumps(DataOf(PyInt(1), Absent))],
          [channel |-> events[3], data |-> Malformed]}

NextRunFair ==
    \/ pubsub_subscribe
    \/ \E msg \in FairMessages : Deliver(msg)
    \/ \E how \in {"returned", "ConnectionError"} : Close(how)
    \/ RunStep
    \/ HandlerStep
    \/ RunEnd
    \/ SubscribeFails

\* run() is scheduled: it starts listening and takes every message it can
SpecRunFair ==
    InitRun /\ [][NextRunFair]_vars /\ WF_vars(pubsub_subscribe) /\ WF_vars(RunStep)
    /\ WF_vars(HandlerStep)

----------------------------------------------------------------------------
(* What the latest handle_event call of Spec did *)

\* the user identity the latest call resolved (PyNone: none)
LastUser == get_user_id(last.data, user_meta_key)

\* the latest call ran the named handler to its end
LastRan(handler) ==
    /\ handled[1] > 0
    /\ raised = ""
    /\ HasSession(last.data)
    /\ Dispatch(last.event, LastUser) = handler

\* the hooks the latest call invoked
Fired == SubSeq(calls, Len(prev.calls) + 1, Len(calls))

\* the latest call changed nothing in redis and invoked no hook
LastChangedNothing == redis = prev.redis /\ calls = prev.calls

CountBefore(u) == scard(prev.redis, ConnKey(u))

CountAfter(u) == scard(redis, ConnKey(u))

----------------------------------------------------------------------------
(* Claims *)

\* C1: on_subscribe(u, data) invokes on_signed_in(u) exactly once when u's
\* connection count before the add was 0, and not at all when it was > 0.
C1_SignedInOnFirstSession ==
    LastRan("on_subscribe") =>
        IF CountBefore(LastUser.s) = 0
        THEN Fired = <<Call(1, "on_signed_in", LastUser.s)>>
        ELSE Fired = <<>>

\* C2: an unsubscribe that takes u's connection count from positive to 0
\* invokes on_signed_out(u) exactly once; one that leaves the count > 0
\* invokes nothing.
C2_SignedOutOnLastSession ==
    LastRan("on_unsubscribe") =>
        /\ (CountBefore(LastUser.s) > 0 /\ CountAfter(LastUser.s) = 0)
               => Fired = <<Call(1, "on_signed_out", LastUser.s)>>
        /\ CountAfter(LastUser.s) > 0 => Fired = <<>>

\* two sessions overlapped, and the unsubscribe of the last one fired the hook
C2_Witness ==
    /\ LastRan("on_unsubscribe")
    /\ handled[1] = 4
    /\ CountBefore(LastUser.s) = 1
    /\ CountAfter(LastUser.s) = 0
    /\ calls = <<Call(1, "on_signed_out", LastUser.s)>>

\* C3: when on_unsubscribe removes the last session of u, u is not a member
\* of get_online_users() after the handler.
C3_OfflineUserLeavesOnlineSet ==
    (LastRan("on_unsubscribe") /\ CountAfter(LastUser.s) = 0)
        => LastUser.s \notin get_online_users(redis)

\* C4: after completely handled events, u is in get_online_users() iff u's
\* connection set has cardinality > 0.
C4_OnlineSetMatchesCounts ==
    \A u \in UserIds :
        u \in get_online_users(redis) <=> scard(redis, ConnKey(u)) > 0

\* C5: is_user_online(u) is true exactly when u's connection set is
\* non-empty, whatever the online-users set holds.
C5_IsOnlineIffHasSession ==
    \A u \in UserIds :
        is_user_online(redis, u) <=> redis[ConnKey(u)] # {}

\* one user is online, another is in the online-users set with no session
C5_Witness ==
    \E u, v \in UserIds :
        /\ is_user_online(redis, v)
        /\ ~is_user_online(redis, u)
        /\ u \in get_online_users(redis)

\* C6: a subscribe event delivered again for a session already recorded for
\* the user leaves the connection count as it was and invokes no
\* on_signed_in.
C6_ResubscribeIdempotent ==
    (LastRan("on_subscribe")
        /\ last.data.session_id.s \in prev.redis[ConnKey(LastUser.s)])
        => /\ CountAfter(LastUser.s) = CountBefore(LastUser.s)
           /\ redis[ConnKey(LastUser.s)] = prev.redis[ConnKey(LastUser.s)]
           /\ Fired = <<>>

\* the only session of a user was subscribed a second time
C6_Witness ==
    /\ LastRan("on_subscribe")
    /\ prev.redis[ConnKey(LastUser.s)] = {last.data.session_id.s}
    /\ CountAfter(LastUser.s) = 1

\* C7: handle_event on a subscribe or unsubscribe event with no meta field
\* raises nothing, invokes no hook and changes nothing in redis.
C7_NoMetaIgnored ==
    (handled[1] > 0 /\ last.event \in {"subscribe", "unsubscribe"}
        /\ ~last.data.has_meta)
        => raised = "" /\ LastChangedNothing

\* a subscribe without meta (and without session_id) met a non-empty store
C7_Witness ==
    /\ handled[1] > 0
    /\ last.event = "subscribe"
    /\ ~last.data.has_meta
    /\ ~HasSession(last.data)
    /\ redis # EmptyRedis
    /\ LastChangedNothing

\* C8: handle_event on a subscribe or unsubscribe event whose meta is
\* non-empty but lacks user_meta_key resolves no user, invokes no hook and
\* changes nothing in redis.
C8_MissingUserKeyIgnored ==
    (handled[1] > 0 /\ last.event \in {"subscribe", "unsubscribe"}
        /\ last.data.has_meta /\ dict_truthy(last.data.meta)
        /\ last.data.meta[user_meta_key] = Absent)
        => LastUser = PyNone /\ LastChangedNothing

\* C9: handle_event with an event name other than subscribe and unsubscribe
\* invokes no hook and changes nothing in redis, even with a user identity
\* and a session_id.
C9_OtherEventsIgnored ==
    (handled[1] > 0 /\ last.event \notin {"subscribe", "unsubscribe"})
        => raised = "" /\ LastChangedNothing

\* a custom event of a user with a session met that user online
C9_Witness ==
    /\ handled[1] > 0
    /\ last.event = "custom"
    /\ LastUser # PyNone
    /\ HasSession(last.data)
    /\ is_user_online(redis, LastUser.s)
    /\ LastChangedNothing

\* the on_signed_in invocations for user u made by instance i
SignedInBy(i, u) ==
    {k \in 1..Len(calls) : calls[k] = Call(i, "on_signed_in", u)}

\* both instances have run, as their first event on an empty store, an
\* on_subscribe for the same user with different session ids
BothSubscribedSameUser ==
    /\ \A i \in Instances :
           pc[i] = "idle" /\ handled[i] = 1 /\ cur[i].handler = "on_subscribe"
    /\ cur[1].user_id = cur[2].user_id
    /\ cur[1].session_id # cur[2].session_id

\* C10: when two instances concurrently process subscribe events for the
\* same offline user with different session ids, under every interleaving
\* both sessions are recorded (count 2) and on_signed_in is invoked on
\* exactly one of the two instances.
C10_ConcurrentSubscribeSignsInOnce ==
    BothSubscribedSameUser =>
        /\ scard(redis, ConnKey(cur[1].user_id)) = 2
        /\ \E i \in Instances :
               /\ Cardinality(SignedInBy(i, cur[1].user_id)) = 1
               /\ \A j \in Instances \ {i} : SignedInBy(j, cur[1].user_id) = {}

\* the on_signed_out invocations for user u made by instance i
SignedOutBy(i, u) ==
    {k \in 1..Len(calls) : calls[k] = Call(i, "on_signed_out", u)}

\* SpecLastTwo: the two instances have each run an on_unsubscribe, one for
\* each of the two sessions the user had when they began
BothUnsubscribedLastTwo ==
    /\ \A i \in Instances :
           /\ pc[i] = "idle"
           /\ handled[i] = MaxConcEvents
           /\ cur[i].handler = "on_unsubscribe"
    /\ cur[1].user_id = cur[2].user_id
    /\ cur[1].session_id # cur[2].session_id
    /\ prev.redis[ConnKey(cur[1].user_id)] = {cur[1].session_id, cur[2].session_id}

\* C11: when two instances concurrently process the unsubscribe events of
\* the last two sessions of one user, under every interleaving of their
\* redis commands on_signed_out is invoked on exactly one instance (removal
\* and count read being one atomic step), not on both.
C11_ConcurrentUnsubscribeSignsOutOnce ==
    BothUnsubscribedLastTwo =>
        \E i \in Instances :
            /\ Cardinality(SignedOutBy(i, cur[1].user_id)) = 1
            /\ \A j \in Instances \ {i} : SignedOutBy(j, cur[1].user_id) = {}

\* the latest call was an unsubscribe event carrying user u and session s
LastUnsubscribed(u, s) ==
    /\ last.event = "unsubscribe"
    /\ LastUser = PyStr(u)
    /\ last.data.session_id = PyStr(s)

\* C12: a session id recorded for user u stays in u's connection set, and
\* is_user_online(u) stays true, until an unsubscribe event carrying user u
\* and that session id is handled; no other event removes it.
C12_SessionStaysUntilUnsubscribed ==
    \A u \in UserIds, s \in SessionIds :
        (s \in prev.redis[ConnKey(u)] /\ ~LastUnsubscribed(u, s))
            => s \in redis[ConnKey(u)] /\ is_user_online(redis, u)

\* an unsubscribe of one of two sessions of a user left the other recorded
C12_Witness ==
    \E u \in UserIds :
        /\ LastRan("on_unsubscribe")
        /\ LastUser = PyStr(u)
        /\ prev.redis[ConnKey(u)] = SessionIds
        /\ Cardinality(redis[ConnKey(u)]) = 1
        /\ is_user_online(redis, u)

\* C18: an unsubscribe event handled while the user's connection set is
\* already empty (a re-delivered unsubscribe, or a user with no recorded
\* session) invokes no on_signed_out and changes nothing in redis.
C18_UnsubscribeOfOfflineUserIgnored ==
    (LastRan("on_unsubscribe") /\ CountBefore(LastUser.s) = 0)
        => Fired = <<>> /\ LastChangedNothing

\* C19: handling a subscribe or unsubscribe event resolved to user u leaves
\* the connection set of every other user v unchanged, does not change v's
\* membership in the online-users set and invokes no hook for v.
C19_OtherUsersUntouched ==
    (LastRan("on_subscribe") \/ LastRan("on_unsubscribe")) =>
        /\ SubSeq(calls, 1, Len(prev.calls)) = prev.calls
        /\ \A v \in UserIds \ {LastUser.s} :
               /\ redis[ConnKey(v)] = prev.redis[ConnKey(v)]
               /\ v \in get_online_users(redis) <=> v \in get_online_users(prev.redis)
               /\ \A k \in 1..Len(Fired) : Fired[k].user_id # v

\* a user signed out while another user had a session and was listed online
C19_Witness ==
    /\ LastRan("on_unsubscribe")
    /\ Fired # <<>>
    /\ \E v \in UserIds \ {LastUser.s} :
           /\ prev.redis[ConnKey(v)] # {}
           /\ v \in get_online_users(prev.redis)

\* a log of hook invocations as if instance 1 had made every one of them
AsOneRoster(log) ==
    [k \in 1..Len(log) |-> Call(1, log[k].hook, log[k].user_id)]

\* C13: the tracker is stateless between events: no handle_event call
\* leaves anything in the attributes of its RedisRoster object, and events
\* handled one at a time, spread arbitrarily over two objects that share
\* one redis, give the same redis states and the same sequence of
\* on_signed_in / on_signed_out invocations as one RedisRoster handling the
\* whole sequence.
C13_SpreadEqualsOneRoster ==
    /\ \A i \in Instances :
           /\ DOMAIN roster[i] = {"key_prefix", "user_meta_key"}
           /\ roster[i] = RedisRoster_init(user_meta_key)
    /\ redis = ref.redis
    /\ AsOneRoster(calls) = ref.calls

\* both instances have handled events and both have invoked a hook
C13_Witness ==
    /\ handled[1] > 0
    /\ handled[2] > 0
    /\ \A i \in Instances : \E k \in 1..Len(calls) : calls[k].inst = i
    /\ \E u \in UserIds : redis[ConnKey(u)] # {}

\* the three inbound channel names under namespace k
InboundUnder(k) ==
    {k \o <<":">> \o <<"s", "u", "b", "s", "c", "r", "i", "b", "e">>,
     k \o <<":">> \o <<"u", "n", "s", "u", "b", "s", "c", "r", "i", "b", "e">>,
     k \o <<":">> \o <<"c", "u", "s", "t", "o", "m">>}

\* C16: for every configured key, subscribe_listen subscribes to exactly
\* the three channels <key>:subscribe, <key>:unsubscribe and <key>:custom,
\* the namespace of the control channel the instance publishes on.
C16_ListensUnderConfiguredKey ==
    /\ subscribed \subseteq InboundUnder(jug_key)
    /\ Listening => subscribed = InboundUnder(jug_key)

\* C16 as amended: for every configured key, subscribe_listen subscribes to
\* exactly the three fixed channels juggernaut:subscribe,
\* juggernaut:unsubscribe and juggernaut:custom; they are under the control
\* channel's namespace when the key is the default 'juggernaut'.  The
\* subscriptions are made one by one: before pubsub.listen() the pubsub
\* holds some of the three, from then on all of them.
C16_ListensOnFixedChannels ==
    /\ {Join(c) : c \in subscribed} \subseteq
           {"juggernaut:subscribe", "juggernaut:unsubscribe", "juggernaut:custom"}
    /\ Listening =>
           /\ {Join(c) : c \in subscribed} =
                  {"juggernaut:subscribe", "juggernaut:unsubscribe",
                   "juggernaut:custom"}
           /\ Cardinality(subscribed) = 3
           /\ jug_key = DefaultKey => subscribed = InboundUnder(jug_key)

\* a Juggernaut with key 'chat' has started subscribe_listen
C16_Witness ==
    /\ Listening
    /\ Join(jug_key) = "chat"

\* the channel names a publish call was given
GivenChannels(channels) ==
    IF channels.t = "str" THEN {channels.name} ELSE Range(channels.items)

\* C17: every publish call makes exactly one redis.publish on the channel
\* named by the configured key and changes nothing else; the envelope's
\* channels are the given channel names once each, a single name counting
\* as a set of one.
C17_PublishOnceOnControlChannel ==
    /\ Len(published) = Len(pub_args)
    /\ redis = EmptyRedis
    /\ \A k \in 1..Len(published) :
           LET chans == published[k].message.value["channels"]
               given == GivenChannels(pub_args[k].channels)
           IN  /\ published[k].channel = jug_key
               /\ published[k].message.ok
               /\ Range(chans) = given
               /\ Len(chans) = Cardinality(given)

\* under key 'chat', a single name was published and then a list with a
\* name twice
C17_Witness ==
    /\ Join(jug_key) = "chat"
    /\ Len(published) = 2
    /\ pub_args[1].channels.t = "str"
    /\ Len(pub_args[2].channels.items) = 3
    /\ Len(published[2].message.value["channels"]) = 2

\* SpecRun: the calls of handle_event made so far are the messages
\* delivered[1], delivered[2], ... decoded, one call each, in that order
SeenInDeliveryOrder ==
    /\ Len(seen) <= pos
    /\ pos <= Len(delivered)
    /\ \A k \in 1..Len(seen) :
           /\ delivered[k].data.ok
           /\ seen[k].data = delivered[k].data.value
           /\ Join(delivered[k].channel) = "juggernaut:" \o seen[k].event
    /\ run_state = "running" => Len(seen) = pos

\* the event sequence of subscribe_listen has ended: the connection closed
\* or failed after the last message, or failed before listen() was entered,
\* or a payload did not decode
UpstreamEnded ==
    \/ closed # "" /\ run_state = closed /\ Listening /\ pos = Len(delivered)
    \/ closed # "" /\ run_state = closed /\ ~Listening /\ pos = 0
    \/ run_state = "ValueError" /\ pos > 0 /\ ~delivered[pos].data.ok

\* the latest handle_event call of run() raised KeyError: its event resolved
\* a user and carried no session_id
HandlerRaised ==
    /\ run_state = "KeyError"
    /\ Len(seen) = pos
    /\ pos > 0
    /\ seen[pos].event \in {"subscribe", "unsubscribe"}
    /\ get_user_id(seen[pos].data, user_meta_key) # PyNone
    /\ ~HasSession(seen[pos].data)

\* C14: run() calls handle_event once for each delivered event, in delivery
\* order, and stops only when the upstream event sequence terminates.
C14_RunStopsOnlyWithUpstream ==
    /\ SeenInDeliveryOrder
    /\ run_state # "running" => UpstreamEnded

\* C14 as amended: run() calls handle_event once for each delivered event,
\* in delivery order, and stops only when the upstream event sequence
\* terminates or a handle_event call raises.
C14_RunStopsWithUpstreamOrHandler ==
    /\ SeenInDeliveryOrder
    /\ run_state # "running" => (UpstreamEnded \/ HandlerRaised)

\* run() handled two events and was ended by the KeyError of the third
C14_Witness ==
    /\ HandlerRaised
    /\ pos = 3
    /\ calls # <<>>

\* redis and calls after the first n handle_event calls of run()
RECURSIVE Replay(_)
Replay(n) ==
    IF n = 0 THEN [redis |-> EmptyRedis, calls |-> <<>>]
    ELSE handle_event(Replay(n - 1), 1, user_meta_key,
                      seen[n].event, seen[n].data).st

\* the handle_event call for seen[n] raised
RaisedAt(n) ==
    handle_event(Replay(n - 1), 1, user_meta_key,
                 seen[n].event, seen[n].data).raised # ""

\* C15: a malformed payload or an exception of the handler ends the loop:
\* the failing message is the last one taken, every message before it was
\* handled, none after it is, and the effects of the earlier ones are kept.
C15_FailureEndsConsumption ==
    run_state \in {"ValueError", "KeyError"} =>
        /\ pos > 0
        /\ pos <= Len(delivered)
        /\ \A k \in 1..(pos - 1) :
               delivered[k].data.ok /\ k <= Len(seen) /\ ~RaisedAt(k)
        /\ IF run_state = "ValueError"
           THEN ~delivered[pos].data.ok /\ Len(seen) = pos - 1
           ELSE delivered[pos].data.ok /\ Len(seen) = pos /\ RaisedAt(pos)
        /\ [redis |-> redis, calls |-> calls] = Replay(pos - 1)

\* the second of three delivered messages was malformed: the first one's
\* effect is in redis, the third one is not taken
C15_Witness ==
    /\ run_state = "ValueError"
    /\ pos = 2
    /\ Len(delivered) = 3
    /\ delivered[3].data.ok
    /\ redis # EmptyRedis

\* delivered[k] is the named event of user u for session s
DeliveredEvent(k, event, u, s) ==
    /\ delivered[k].data.ok
    /\ event_of_channel(delivered[k].channel) = event
    /\ get_user_id(delivered[k].data.value, user_meta_key) = PyStr(u)
    /\ delivered[k].data.value.session_id = PyStr(s)

\* delivered[k] is a subscribe event of user u, with or without a session
DeliveredSubscribe(k, u) ==
    /\ delivered[k].data.ok
    /\ event_of_channel(delivered[k].channel) = "subscribe"
    /\ get_user_id(delivered[k].data.value, user_meta_key) = PyStr(u)

\* every session subscribed for u is followed by a delivered unsubscribe of
\* u for that session, with no subscribe of u after it
Balanced(u) ==
    \A k \in 1..Len(delivered) : \A s \in SessionIds :
        DeliveredEvent(k, "subscribe", u, s) =>
            \E j \in (k + 1)..Len(delivered) :
                /\ DeliveredEvent(j, "unsubscribe", u, s)
                /\ \A i \in (j + 1)..Len(delivered) : ~DeliveredSubscribe(i, u)

\* run() was not ended by an exception
KeptConsuming == run_state \notin {"IndexError", "ValueError", "KeyError"}

\* C20: under weak fairness of the loop of run(), when run() keeps
\* consuming and every subscribed session of a user u is followed by a
\* delivered unsubscribe of u for that session with no later subscribe of
\* u, then eventually is_user_online(u) is false and stays false.
C20_BalancedUserGoesOffline ==
    <>[](\A u \in UserIds :
             (KeptConsuming /\ Balanced(u)) => ~is_user_online(redis, u))

\* run() took both delivered messages, the subscribe of user 1 for session
\* s1 and its unsubscribe: the user was online before the unsubscribe was
\* handled and is offline after it
C20_Witness ==
    /\ KeptConsuming
    /\ pos = Len(delivered)
    /\ Len(delivered) = 2
    /\ DeliveredEvent(1, "subscribe", "1", "s1")
    /\ DeliveredEvent(2, "unsubscribe", "1", "s1")
    /\ Balanced("1")
    /\ is_user_online(prev.redis, "1")
    /\ ~is_user_online(redis, "1")

====
